---- MODULE Spec2Model ----
(***************************************************************************)
(* Model of the movement-and-transmission update engine of the swine       *)
(* metapopulation model: the preprocessor that restructures the farmer     *)
(* movement file (TradeMovementsReader.restructure_moves) and the          *)
(* metapopulation processes Metapopulation.farmer_movement and             *)
(* Metapopulation.sample_I_from_fatteners of                               *)
(* src/movement_12fatpens_swIAVs.py.                                       *)
(*                                                                         *)
(* Floating point values (durations, transmission rates) are modelled as   *)
(* exact rationals <<numerator, denominator>> in lowest terms.  Random     *)
(* draws are nondeterministic choices.  Python dicts are association       *)
(* lists in insertion order, Python lists are sequences.                   *)
(***************************************************************************)
EXTENDS Integers, Sequences, FiniteSets, TLC

VARIABLES
    rows,         \* the records of the trade file, in file order
    shared_data,  \* simulation.shared_data (holds 'moves' once loaded)
    herds,        \* herds[p]: the animals of pen p (get_populations())
    trans,        \* herds[p].statevars.trans_btwn_pens_frm_movement
    nb_new_farrowing_sows, \* herds[1].statevars.nb_new_farrowing_sows
    nb_of_sampled_I_Jf,    \* herds[4].statevars.nb_of_sampled_I_Jf
    step,         \* self.statevars.step
    biosec,       \* model.parameters.biosec_remove_risky_move
    nextId,       \* identity of the next atom created by new_atom / clone
    pc,           \* position of the host scheduler in the step
    loc,          \* the local variables of the last farmer_movement call
    params,       \* model.parameters.proba_* read by external_pathway
    ext           \* the local variables of the last external_pathway call

vars == <<rows, shared_data, herds, trans, nb_new_farrowing_sows,
          nb_of_sampled_I_Jf, step, biosec, nextId, pc, loc, params, ext>>

-----------------------------------------------------------------------------
(* Bounds of the model *)

\* longest trade file of the reader specification
MaxRows == 3
\* last calendar date a record of the trade file can carry
MaxDate == 3
\* longest list of movements of the movement specification
MaxEdges == 1
\* number of steps the host scheduler runs
MaxStep == 2
\* largest litter one farrowing sow produces (round(gauss(mean_pba, sd_pba)))
MaxLitter == 2
\* largest number of growers above the capacity of the fattening pool
MaxExcess == 1
\* number of atoms new_atom / clone may create in one run
MaxNew == 4
\* identity of the first atom created during the run
FirstNewId == 1000

(* Model parameters (self.model...) *)

\* model.origin_date, in calendar time units
origin_date == 1
\* model.step_duration, in calendar time units
step_duration == 2
\* model.parameters.nb_herds
nb_herds == 18
\* model.parameters.K_herd, the capacity for newborns
K_herd == 2
\* model.parameters.K_sows
K_sows == 1
\* model.parameters.between_herd_trans
between_herd_trans == <<1, 2>>
\* model.parameters.neighboring_herd_trans
neighboring_herd_trans == <<1, 4>>

(* Program constants *)

\* minutes in a week
WeekMinutes == 10080
\* first and last fattening pen
FirstFat == 4
LastFat == 15
\* the dressing rooms
Dressing1 == 16
Dressing2 == 17
\* head capacity of the fattening pool and of one fattening pen
PoolCap == 144
PenCap == 12

Pens == 0 .. (nb_herds - 1)
FatPens == FirstFat .. LastFat

-----------------------------------------------------------------------------
(* Exact rationals standing for Python floats *)

RECURSIVE GCD(_, _)
GCD(a, b) == IF b = 0 THEN a ELSE GCD(b, a % b)

Abs(x) == IF x < 0 THEN -x ELSE x

\* n/d in lowest terms, d > 0
Rat(n, d) ==
    LET g == GCD(Abs(n), Abs(d))
        s == IF d < 0 THEN -1 ELSE 1
    IN  <<(s * n) \div g, (s * d) \div g>>

Zero == <<0, 1>>
RAdd(x, y) == Rat(x[1] * y[2] + y[1] * x[2], x[2] * y[2])
RSub(x, y) == Rat(x[1] * y[2] - y[1] * x[2], x[2] * y[2])
RMul(x, y) == Rat(x[1] * y[1], x[2] * y[2])
\* x * n / d for integers n, d (d # 0)
RMulInt(x, n) == Rat(x[1] * n, x[2])
RDivInt(x, d) == Rat(x[1], x[2] * d)

-----------------------------------------------------------------------------
(* Python dicts: association lists <<key, value>> in insertion order *)

DKeys(d) == {d[i][1] : i \in DOMAIN d}
DGet(d, k) == d[CHOOSE i \in DOMAIN d : d[i][1] = k][2]
\* d[k] = v
DSet(d, k, v) ==
    IF k \in DKeys(d)
    THEN [i \in DOMAIN d |-> IF d[i][1] = k THEN <<k, v>> ELSE d[i]]
    ELSE Append(d, <<k, v>>)

-----------------------------------------------------------------------------
(* TradeMovementsReader *)

\* RestructureRow with the new pair put in front of the list
RestructureRowPrepend(moves, row) ==
    LET week == row.date
    IN  IF week < origin_date
        THEN moves
        ELSE
          LET s == (week - origin_date) \div step_duration
              m1 == IF s \notin DKeys(moves) THEN DSet(moves, s, <<>>) ELSE moves
              in0 == DGet(m1, s)
              in1 == IF row.source \notin DKeys(in0) THEN DSet(in0, row.source, <<>>) ELSE in0
              in2 == DSet(in1, row.source,
                          <<<<row.dest, row.duration>>>> \o DGet(in1, row.source))
          IN  DSet(m1, s, in2)

\* one iteration of the loop over the rows of the file
RestructureRow(moves, row) ==
    LET week == row.date
    IN  IF week < origin_date
        THEN moves
        ELSE
          LET s == (week - origin_date) \div step_duration
              m1 == IF s \notin DKeys(moves) THEN DSet(moves, s, <<>>) ELSE moves
              src == row.source
              dest == row.dest
              dur == row.duration
              in0 == DGet(m1, s)
              in1 == IF src \notin DKeys(in0) THEN DSet(in0, src, <<>>) ELSE in0
              in2 == DSet(in1, src, Append(DGet(in1, src), <<dest, dur>>))
          IN  DSet(m1, s, in2)

RECURSIVE RestructureFrom(_, _, _)
RestructureFrom(moves, rs, i) ==
    IF i > Len(rs) THEN moves
    ELSE RestructureFrom(RestructureRow(moves, rs[i]), rs, i + 1)

restructure_moves(rs) == RestructureFrom(<<>>, rs, 1)

\* run_preprocessor: loads the moves once
RunPreprocessor ==
    /\ pc = "setup"
    /\ IF "moves" \notin DKeys(shared_data)
       THEN shared_data' = DSet(shared_data, "moves", restructure_moves(rows))
       ELSE shared_data' = shared_data
    /\ pc' = "step"
    /\ UNCHANGED <<rows, herds, trans, nb_new_farrowing_sows,
                   nb_of_sampled_I_Jf, step, biosec, nextId, loc, params, ext>>

-----------------------------------------------------------------------------
(* Populations.  An animal (atom) is a record                              *)
(*   [id, age_group, health, sex];                                         *)
(* a pen is the sequence of its animals.                                   *)

\* herd.select_atoms(variable, value)
select_age(herd, value) == SelectSeq(herd, LAMBDA a : a.age_group = value)
select_health(herd, value) == SelectSeq(herd, LAMBDA a : a.health = value)
Range(s) == {s[i] : i \in DOMAIN s}
\* herd.remove_atoms(atoms), herd.add_atoms(atoms)
remove_atoms(herd, atoms) ==
    LET gone == Range(atoms) IN SelectSeq(herd, LAMBDA a : a \notin gone)
add_atoms(herd, atoms) == herd \o atoms

\* the aggregate counts of a pen, derived from its membership
total_herd(herd) == Len(herd)
total_I(herd) == Len(select_health(herd, "I"))
total_A(herd) == Len(select_age(herd, "A"))
total_G(herd) == Len(select_age(herd, "G"))
total_F(herd) == Len(select_age(herd, "F"))
total_Jnb(herd) == Len(select_age(herd, "Jnb"))

\* transfer of the animals of one age group from pen src to pen dst
MoveGroup(h, src, dst, group) ==
    LET atoms == select_age(h[src], group)
    IN  [h EXCEPT ![src] = remove_atoms(h[src], atoms),
                  ![dst] = add_atoms(h[dst], atoms)]

-----------------------------------------------------------------------------
(* Metapopulation.farmer_movement: transfer of the pigs *)

\* MoveGestating leaving the gestating sows in herds[0] as well
MoveGestatingCopy(h) == [h EXCEPT ![1] = add_atoms(h[1], select_age(h[0], "G"))]

\* herds[0] 'G' -> herds[1]
MoveGestating(h) == MoveGroup(h, 0, 1, "G")
\* herds[1] 'F' -> herds[2]
MoveFarrowing(h) == MoveGroup(h, 1, 2, "F")
\* herds[2] 'A' -> herds[0]
MoveNongestating(h) == MoveGroup(h, 2, 0, "A")
\* herds[2] 'Jn' -> herds[3]
MoveNursery(h) == MoveGroup(h, 2, 3, "Jn")
\* herds[3] 'Jf' leave the nursery
RemoveGrowers(h) == [h EXCEPT ![3] = remove_atoms(h[3], select_age(h[3], "Jf"))]

\* herds[2].new_atom(sublevel='animals', prototype=...), pba times; the
\* prototypes are not part of the add-on: every other newborn is female
NewAtoms(first, pba, health) ==
    [j \in 1 .. pba |->
        [id |-> first + j - 1, age_group |-> "Jnb", health |-> health,
         sex |-> IF (first + j) % 2 = 0 THEN "Female" ELSE "Male"]]

\* the prototype of the litter of one sow; coin is vert_trans > random.random()
NewbornHealth(sow, coin) ==
    IF (sow.health = "I" \/ sow.health = "E") /\ coin THEN "E"
    ELSE IF sow.health = "S" THEN "S"
    ELSE "M"

\* the cap test with the litters of the sows before counted in
BelowCapLive(h2, newborn) == total_Jnb(h2) + Len(newborn) < K_herd

\* the cap test of the litter loop
BelowCap(h2, newborn) == total_Jnb(h2) < K_herd

\* the loop over farrowing_sows; draws[i] are the random draws for sow i.
\* One record per sow: whether it passed the cap test, and its litter
RECURSIVE LitterLoop(_, _, _, _, _, _)
LitterLoop(h2, sows, draws, i, first, newborn) ==
    IF i > Len(sows) THEN <<>>
    ELSE LET below == BelowCap(h2, newborn)
             litter == IF below
                       THEN NewAtoms(first + Len(newborn), draws[i].pba,
                                     NewbornHealth(sows[i], draws[i].coin))
                       ELSE <<>>
         IN  <<[sow |-> sows[i].id, drawn |-> below, litter |-> litter]>>
             \o LitterLoop(h2, sows, draws, i + 1, first, newborn \o litter)

\* newborn: the litters in the order of the sows
RECURSIVE Newborn(_, _)
Newborn(litters, i) ==
    IF i > Len(litters) THEN <<>> ELSE litters[i].litter \o Newborn(litters, i + 1)

\* random testing: the growers whose draw falls below proba_removal_if_I
\* (state I) or proba_removal_if_E (state E) are the set `hit`
TestGrowers(growers, hit) ==
    LET afterI == SelectSeq(growers, LAMBDA pig : ~(pig.health = "I" /\ pig.id \in hit))
    IN  SelectSeq(afterI, LAMBDA pig : ~(pig.health = "E" /\ pig.id \in hit))

\* CloneFemales with the males cloned as well
CloneAll(excess_growers, i, first) ==
    [k \in DOMAIN excess_growers |->
        [excess_growers[k] EXCEPT !.id = first + k - 1, !.age_group = "A"]]

\* pig.clone(prototype='nongestating') for the females of excess_growers
RECURSIVE CloneFemales(_, _, _)
CloneFemales(excess_growers, i, first) ==
    IF i > Len(excess_growers) THEN <<>>
    ELSE IF excess_growers[i].sex = "Female"
         THEN <<[excess_growers[i] EXCEPT !.id = first, !.age_group = "A"]>>
              \o CloneFemales(excess_growers, i + 1, first + 1)
         ELSE CloneFemales(excess_growers, i + 1, first)

\* DropExcess keeping every grower
DropExcessNone(growers, excess_growers) == growers

\* growers = [x for x in growers if x not in excess_growers]
DropExcess(growers, excess_growers) == remove_atoms(growers, excess_growers)

\* n, the number of parts
NumParts(growers) ==
    IF Len(growers) > 0
    THEN LET n == Len(growers) \div PenCap
         IN  IF n = 0 THEN 1 ELSE IF n > PenCap THEN PenCap ELSE n
    ELSE 1

Min(a, b) == IF a < b THEN a ELSE b

\* array_split with n equal parts, the remainder left out
array_split_even(ary, n) ==
    LET each == Len(ary) \div n
    IN  [i \in 1 .. n |-> SubSeq(ary, (i - 1) * each + 1, i * each)]

\* np.array_split(ary, n): n contiguous parts, the first (len % n) parts one
\* element longer than the others
array_split(ary, n) ==
    LET each == Len(ary) \div n
        extras == Len(ary) % n
    IN  [i \in 1 .. n |->
            LET st == (i - 1) * each + Min(i - 1, extras)
                ln == each + (IF i <= extras THEN 1 ELSE 0)
            IN  SubSeq(ary, st + 1, st + ln)]

\* for i, pen in enumerate(pens): herds[i + 4].add_atoms(pen)
AssignPens(h, pens) ==
    [p \in DOMAIN h |->
        IF p - FirstFat + 1 \in DOMAIN pens
        THEN add_atoms(h[p], pens[p - FirstFat + 1])
        ELSE h[p]]

-----------------------------------------------------------------------------
(* Metapopulation.farmer_movement: movement of the farmers *)

\* for i in range(nb_herds): herds[i].statevars.trans_btwn_pens_frm_movement = 0
ResetTransNone(t) == t
ResetTrans(t) == [p \in DOMAIN t |-> IF p \in 0 .. (nb_herds - 1) THEN Zero ELSE t[p]]

\* BIOSECURITY MEASURE: the movements whose duration is set to 0
RiskyMoveNarrow(flag, source, dest) ==
    \/ (FirstFat < source /\ source <= LastFat) /\ (1 <= dest /\ dest <= 3) /\ flag = 1
    \/ ((source = 1 /\ dest = 2) \/ (source = 3 /\ 1 <= dest /\ dest <= 2)) /\ flag = 1
RiskyMove(flag, source, dest) ==
    \/ (FirstFat <= source /\ source <= LastFat) /\ (1 <= dest /\ dest <= 3) /\ flag = 1
    \/ ((source = 1 /\ dest = 2) \/ (source = 3 /\ 1 <= dest /\ dest <= 2)) /\ flag = 1

\* the sums of total_I and total_herd over the fattening pens i .. 15, pen
\* `skip` left out
RECURSIVE SumI(_, _, _)
SumI(h, i, skip) ==
    IF i > LastFat THEN 0
    ELSE (IF i # skip THEN total_I(h[i]) ELSE 0) + SumI(h, i + 1, skip)

RECURSIVE SumHerd(_, _, _)
SumHerd(h, i, skip) ==
    IF i > LastFat THEN 0
    ELSE (IF i # skip THEN total_herd(h[i]) ELSE 0) + SumHerd(h, i + 1, skip)

\* trans_I_from_source of one movement with source != dest
TransFromSource(h, flag, source, dest, dur) ==
    IF total_herd(h[source]) > 0 /\ dest # Dressing1 /\ dest # Dressing2
    THEN LET d == IF RiskyMove(flag, source, dest) THEN Zero ELSE Rat(dur, WeekMinutes)
         IN  IF source # FirstFat
             THEN RDivInt(RMulInt(RMul(d, between_herd_trans), total_I(h[source])),
                          total_herd(h[source]))
             ELSE LET I == SumI(h, FirstFat, -1)
                      N == SumHerd(h, FirstFat, -1)
                      N1 == IF N = 0 THEN 1 ELSE N
                  IN  RDivInt(RMulInt(RMul(d, between_herd_trans), I), N1)
    ELSE Zero

\* the loop "for i in range(5, 16)" of a movement to pen 4
RECURSIVE FanOut(_, _, _, _)
FanOut(t, dest, amount, i) ==
    IF i > LastFat THEN t
    ELSE FanOut([t EXCEPT ![dest] = RAdd(@, amount)], dest, amount, i + 1)

\* the body of the loop over the movements of the step
SkipSelfNever(source, dest) == TRUE
SkipSelf(source, dest) == source # dest

ApplyMove(t, h, flag, source, dest, dur) ==
    IF SkipSelf(source, dest)
    THEN LET amount == TransFromSource(h, flag, source, dest, dur)
             t1 == [t EXCEPT ![dest] = RAdd(@, amount)]
         IN  IF dest = FirstFat THEN FanOut(t1, dest, amount, FirstFat + 1) ELSE t1
    ELSE t

\* moves[step] as the sequence of <<source, dest, dur>> the two loops visit
RECURSIVE MovesOfSource(_, _, _)
MovesOfSource(source, list, i) ==
    IF i > Len(list) THEN <<>>
    ELSE <<<<source, list[i][1], list[i][2]>>>> \o MovesOfSource(source, list, i + 1)

RECURSIVE MovesOfStep(_, _)
MovesOfStep(bysource, i) ==
    IF i > Len(bysource) THEN <<>>
    ELSE MovesOfSource(bysource[i][1], bysource[i][2], 1) \o MovesOfStep(bysource, i + 1)

\* the trace of the loop: one record per movement, with the statevars before
\* and after it and whether it was a movement between two pens
RECURSIVE MoveLoop(_, _, _, _, _)
MoveLoop(t, h, flag, edges, i) ==
    IF i > Len(edges) THEN <<>>
    ELSE LET e == edges[i]
             t1 == ApplyMove(t, h, flag, e[1], e[2], e[3])
         IN  <<[source |-> e[1], dest |-> e[2], dur |-> e[3],
                before |-> t, after |-> t1]>>
             \o MoveLoop(t1, h, flag, edges, i + 1)

-----------------------------------------------------------------------------
(* The process farmer_movement as one step *)

\* the random draws for one farrowing sow: vert_trans > random.random() and
\* round(random.gauss(mean_pba, sd_pba)), a draw below 0 giving no newborn
Draw == [coin : BOOLEAN, pba : 0 .. MaxLitter]

\* the k-element subsets of lo .. hi (the outcomes of random.sample)
RECURSIVE KSubsets(_, _, _)
KSubsets(lo, hi, k) ==
    IF k = 0 THEN {{}}
    ELSE UNION {{{i} \cup T : T \in KSubsets(i + 1, hi, k - 1)} : i \in lo .. hi}

Moves == DGet(shared_data, "moves")

\* lines 104-159: the transfers up to the growers leaving the nursery
Transfer(h, draws, first) ==
    LET h1 == MoveGestating(h)
        farrowing_sows == select_age(h1[1], "F")
        h2 == MoveFarrowing(h1)
        litters == LitterLoop(h2[2], farrowing_sows, draws, 1, first, <<>>)
        newborn == Newborn(litters, 1)
        h3 == IF Len(newborn) # 0
              THEN [h2 EXCEPT ![2] = add_atoms(h2[2], newborn)]
              ELSE h2
        h4 == MoveNongestating(h3)
        h5 == MoveNursery(h4)
    IN  [herds |-> RemoveGrowers(h5),
         farrowing_sows |-> farrowing_sows,
         litters |-> litters,
         newborn |-> newborn,
         growers |-> select_age(h5[3], "Jf")]

\* lines 169-201: the excess, the new gilts and the split over the pens;
\* sample is the set of positions random.sample draws
Redistribute(h6, growers1, sample, first) ==
    LET excess == Len(growers1) - PoolCap
        picked == {growers1[i].id : i \in sample}
        excess_growers == SelectSeq(growers1, LAMBDA pig : pig.id \in picked)
        total_sows == total_A(h6[0]) + total_G(h6[1]) + total_F(h6[2])
        new_gilts == IF excess > 0 /\ total_sows < 3 * K_sows
                     THEN CloneFemales(excess_growers, 1, first)
                     ELSE <<>>
        growers == IF excess > 0
                   THEN DropExcess(growers1, excess_growers)
                   ELSE growers1
        h7 == IF Len(new_gilts) # 0
              THEN [h6 EXCEPT ![0] = add_atoms(h6[0], new_gilts)]
              ELSE h6
        pens == array_split(growers, NumParts(growers))
    IN  [herds |-> AssignPens(h7, pens),
         excess_growers |-> excess_growers,
         new_gilts |-> new_gilts,
         growers |-> growers,
         pens |-> pens]

\* lines 205-268: the reset and the loop over the movements of the step
FarmerTrace(t, h, flag, moves, s) ==
    MoveLoop(ResetTrans(t), h, flag,
             IF s \in DKeys(moves) THEN MovesOfStep(DGet(moves, s), 1) ELSE <<>>, 1)

\* the outcomes of random.sample(growers, excess)
Samples(growers1) ==
    IF Len(growers1) - PoolCap > 0
    THEN KSubsets(1, Len(growers1), Len(growers1) - PoolCap)
    ELSE {{}}

\* the growers the random testing can remove
Testable(growers0) ==
    {growers0[i].id : i \in {j \in DOMAIN growers0 : growers0[j].health \in {"I", "E"}}}

FarmerMovement ==
    /\ pc = "step"
    /\ \E draws \in [1 .. total_F(MoveGestating(herds)[1]) -> Draw] :
       \E a \in {Transfer(herds, draws, nextId)} :
       \E hit \in SUBSET Testable(a.growers) :
       \E growers1 \in {TestGrowers(a.growers, hit)} :
       \E sample \in Samples(growers1) :
       \E b \in {Redistribute(a.herds, growers1, sample, nextId + Len(a.newborn))} :
       \E log \in {FarmerTrace(trans, b.herds, biosec, Moves, step)} :
          /\ nextId + Len(a.newborn) + Len(b.new_gilts) <= FirstNewId + MaxNew
          /\ herds' = b.herds
          /\ nb_new_farrowing_sows' = Len(a.farrowing_sows)
          /\ nextId' = nextId + Len(a.newborn) + Len(b.new_gilts)
          /\ trans' = IF Len(log) = 0 THEN ResetTrans(trans) ELSE log[Len(log)].after
          /\ loc' = [before |-> herds,
                     farrowing_sows |-> a.farrowing_sows,
                     litters |-> a.litters,
                     newborn |-> a.newborn,
                     pool |-> a.growers,
                     tested |-> growers1,
                     excess_growers |-> b.excess_growers,
                     new_gilts |-> b.new_gilts,
                     growers |-> b.growers,
                     pens |-> b.pens,
                     entry |-> trans,
                     log |-> log]
    /\ pc' = "moved"
    /\ UNCHANGED <<rows, shared_data, nb_of_sampled_I_Jf, step, biosec, params, ext>>

-----------------------------------------------------------------------------
(* Metapopulation.sample_I_from_fatteners (any pair of fattening pens) *)

\* NeighbourTrans with pen i itself counted among the pens it reads
NeighbourTransAll(h, i) ==
    LET I == SumI(h, FirstFat, -1)
        N == SumHerd(h, FirstFat, -1)
        portion_I == IF N # 0 THEN Rat(I, N) ELSE Zero
    IN  RMul(neighboring_herd_trans, portion_I)

\* the statevar of fattening pen i
NeighbourTrans(h, i) ==
    LET I == SumI(h, FirstFat, i)
        N == SumHerd(h, FirstFat, i)
        portion_I == IF N # 0 THEN Rat(I, N) ELSE Zero
    IN  RMul(neighboring_herd_trans, portion_I)

SampleIFromFatteners ==
    /\ pc = "moved"
    /\ nb_of_sampled_I_Jf' = Cardinality({i \in 0 .. 11 : total_I(herds[i + FirstFat]) > 0})
    /\ trans' = [p \in DOMAIN trans |->
                    IF p \in FatPens THEN NeighbourTrans(herds, p) ELSE trans[p]]
    /\ pc' = "sampled"
    /\ UNCHANGED <<rows, shared_data, herds, nb_new_farrowing_sows, step,
                   biosec, nextId, loc, params, ext>>

-----------------------------------------------------------------------------
(* sample_I_from_fatteners, line-adjacency variant                         *)
(* (src/movement_12fatpens_outrans.py): the pens 4, 6, ..., 14 stand in    *)
(* one line and the pens 5, 7, ..., 15 in another                          *)

\* the numerator and the denominator of the quotient the branch of pen i
\* computes
LineI(h, i) ==
    IF i = 4 \/ i = 5 THEN total_I(h[i + 2])
    ELSE IF i = 14 \/ i = 15 THEN total_I(h[i - 2])
    ELSE total_I(h[i - 2]) + total_I(h[i + 2])

LineHerd(h, i) ==
    IF i = 4 \/ i = 5 THEN total_herd(h[i + 2])
    ELSE IF i = 14 \/ i = 15 THEN total_herd(h[i - 2])
    ELSE total_herd(h[i - 2]) + total_herd(h[i + 2])

\* the loop "for i in range(4, 16)"; running is trans_between_pens.  A
\* denominator of 0 raises ZeroDivisionError and leaves the loop
RECURSIVE LineLoop(_, _, _, _)
LineLoop(t, h, i, running) ==
    IF i > LastFat THEN [trans |-> t, raised |-> FALSE]
    ELSE IF LineHerd(h, i) = 0 THEN [trans |-> t, raised |-> TRUE]
    ELSE LET running1 == RAdd(running,
                              RDivInt(RMulInt(neighboring_herd_trans, LineI(h, i)),
                                      LineHerd(h, i)))
         IN  LineLoop([t EXCEPT ![i] = RAdd(@, running1)], h, i + 1, running1)

SampleIFromFattenersLine ==
    /\ pc = "moved"
    /\ nb_of_sampled_I_Jf' = Cardinality({i \in 0 .. 11 : total_I(herds[i + FirstFat]) > 0})
    /\ \E r \in {LineLoop(trans, herds, FirstFat, Zero)} :
          /\ trans' = r.trans
          /\ pc' = IF r.raised THEN "error" ELSE "sampled_line"
    /\ UNCHANGED <<rows, shared_data, herds, nb_new_farrowing_sows, step,
                   biosec, nextId, loc, params, ext>>

-----------------------------------------------------------------------------
(* Metapopulation.external_pathway *)

One == <<1, 1>>
RLess(x, y) == x[1] * y[2] < y[1] * x[2]

\* np.random.uniform(0, high): a value of [0, high)
UniformDraws(high) == {Zero, RMul(high, <<1, 2>>)}
\* P2 = np.random.uniform(pes, opt): pes itself when pes = opt
P2Draws(p) == {p.pes, RDivInt(RAdd(p.pes, p.opt), 2)}
\* np.random.random(): a value of [0, 1)
RandomDraws == {Zero, <<1, 2>>}

\* R_contact with P2 left out
RContactRaw(P1, P2) == P1

\* R_contact = P1 * (1 - P2)
RContact(P1, P2) == RMul(P1, RSub(One, P2))

\* what one susceptible pig can meet: its R_contact, the draw u compared to
\* it, and whether apply_prototype raises for this pig
PigDraws(p) ==
    {LET R == RContact(RMul(RMul(d[1], d[2]), d[3]), d[4])
     IN  [R |-> R, u |-> d[5], raises |-> d[6] /\ RLess(d[5], R)] :
        d \in UniformDraws(p.proba_encounter) \X UniformDraws(p.proba_trans)
              \X UniformDraws(p.proba_ext_I) \X P2Draws(p) \X RandomDraws \X BOOLEAN}

\* the susceptible pigs of pens h .. 15, in the order the two loops visit
\* them, as <<pen, position in the pen>>
RECURSIVE Susceptibles(_, _)
Susceptibles(hs, h) ==
    IF h > LastFat THEN <<>>
    ELSE LET idx == SelectSeq([i \in DOMAIN hs[h] |-> i],
                              LAMBDA i : hs[h][i].health = "S")
         IN  [k \in DOMAIN idx |-> <<h, idx[k]>>] \o Susceptibles(hs, h + 1)

\* pig.apply_prototype(name='infected_outside_farm', ...): susceptible to
\* exposed
ApplyPrototype(hs, pen, i) == [hs EXCEPT ![pen][i].health = "E"]

\* the handlers with quit() left out
HaltsNever(raised) == FALSE

\* except TypeError / except Exception: print and quit()
Halts(raised) == raised

\* the loops over the pens and their susceptible pigs
RECURSIVE ExternalLoop(_, _, _, _, _)
ExternalLoop(hs, todo, draws, i, log) ==
    IF i > Len(todo) THEN [herds |-> hs, log |-> log, halted |-> FALSE]
    ELSE LET pen == todo[i][1]
             pos == todo[i][2]
             d == draws[i]
             entry == [id |-> hs[pen][pos].id, pen |-> pen, R |-> d.R, u |-> d.u,
                       applied |-> FALSE, raised |-> FALSE]
         IN  IF ~RLess(d.u, d.R)
             THEN ExternalLoop(hs, todo, draws, i + 1, Append(log, entry))
             ELSE IF d.raises
                  THEN IF Halts(TRUE)
                       THEN [herds |-> hs,
                             log |-> Append(log, [entry EXCEPT !.raised = TRUE]),
                             halted |-> TRUE]
                       ELSE ExternalLoop(hs, todo, draws, i + 1,
                                Append(log, [entry EXCEPT !.raised = TRUE]))
                  ELSE ExternalLoop(ApplyPrototype(hs, pen, pos), todo, draws, i + 1,
                           Append(log, [entry EXCEPT !.applied = TRUE]))

ExternalPathway ==
    /\ pc \in {"moved", "sampled", "sampled_line"}
    /\ \E draws \in [1 .. Len(Susceptibles(herds, 0)) -> PigDraws(params)] :
       \E r \in {ExternalLoop(herds, Susceptibles(herds, 0), draws, 1, <<>>)} :
          /\ herds' = r.herds
          /\ ext' = [before |-> herds, log |-> r.log]
          /\ pc' = IF r.halted THEN "halted" ELSE "external"
    /\ UNCHANGED <<rows, shared_data, trans, nb_new_farrowing_sows,
                   nb_of_sampled_I_Jf, step, biosec, nextId, loc, params>>

-----------------------------------------------------------------------------
(* The host scheduler *)

\* the end of a step: the scheduler advances the step counter
EndStep ==
    /\ pc \in {"moved", "sampled", "sampled_line", "external"}
    /\ step < MaxStep
    /\ step' = step + 1
    /\ pc' = "step"
    /\ UNCHANGED <<rows, shared_data, herds, trans, nb_new_farrowing_sows,
                   nb_of_sampled_I_Jf, biosec, nextId, loc, params, ext>>

\* a further repetition of the simulation: the preprocessor is invoked again
NewRun ==
    /\ pc = "step"
    /\ step = 0
    /\ pc' = "setup"
    /\ UNCHANGED <<rows, shared_data, herds, trans, nb_new_farrowing_sows,
                   nb_of_sampled_I_Jf, step, biosec, nextId, loc, params, ext>>

-----------------------------------------------------------------------------
(* Initial states *)

Pig(id, age_group, health, sex) ==
    [id |-> id, age_group |-> age_group, health |-> health, sex |-> sex]

EmptyFarm == [p \in Pens |-> <<>>]

\* the locals of farmer_movement before its first call
NoLoc(h) ==
    [before |-> h, farrowing_sows |-> <<>>, litters |-> <<>>, newborn |-> <<>>,
     pool |-> <<>>,
     tested |-> <<>>, excess_growers |-> <<>>, new_gilts |-> <<>>,
     growers |-> <<>>, pens |-> <<>>, entry |-> [p \in Pens |-> Zero],
     log |-> <<>>]

\* the locals of external_pathway before its first call
NoExt(h) == [before |-> h, log |-> <<>>]

\* the external-pathway parameters of a farm closed to the outside
DefaultParams ==
    [proba_encounter |-> Zero, proba_trans |-> Zero, proba_ext_I |-> Zero,
     pes |-> <<1, 1>>, ml |-> <<1, 1>>, opt |-> <<1, 1>>]

SeqsUpTo(S, n) == UNION {[1 .. k -> S] : k \in 0 .. n}

InitCommon ==
    /\ shared_data = <<>>
    /\ trans = [p \in Pens |-> Zero]
    /\ nb_new_farrowing_sows = 0
    /\ nb_of_sampled_I_Jf = 0
    /\ step = 0
    /\ nextId = FirstNewId
    /\ pc = "setup"
    /\ loc = NoLoc(herds)
    /\ params = DefaultParams
    /\ ext = NoExt(herds)

(* the reader: any short trade file *)
ReaderRow == [date : 0 .. MaxDate, source : {3, 4}, dest : {1, 4},
              duration : {5040}]

InitReader ==
    /\ rows \in SeqsUpTo(ReaderRow, MaxRows)
    /\ herds = EmptyFarm
    /\ biosec = 0
    /\ InitCommon

NextReader == RunPreprocessor \/ NewRun

SpecReader == InitReader /\ [][NextReader]_vars

(* the split of the grower pool: a nursery holding any number of growers *)

\* grower i of the nursery: the first is infectious, the second exposed,
\* every other one female
Grower(i) ==
    Pig(i, "Jf", IF i = 1 THEN "I" ELSE IF i = 2 THEN "E" ELSE "S",
        IF i % 2 = 0 THEN "Female" ELSE "Male")

\* a farm whose nursery holds k growers and whose pen 4 holds one fattener
SplitFarm(k) ==
    [p \in Pens |->
        IF p = 3 THEN [i \in 1 .. k |-> Grower(i)]
        ELSE IF p = FirstFat THEN <<Pig(900, "Jf", "S", "Male")>>
        ELSE <<>>]

\* a farm with ns non-gestating sows, nb newborns in the farrowing pen and a
\* nursery holding one grower more than the fattening pool takes
GiltFarm(ns, nb) ==
    [p \in Pens |->
        CASE p = 0 -> [i \in 1 .. ns |-> Pig(800 + i, "A", "S", "Female")]
          [] p = 2 -> [i \in 1 .. nb |-> Pig(810 + i, "Jnb", "S", "Male")]
          [] OTHER -> SplitFarm(PoolCap + 1)[p]]

InitSplit ==
    /\ rows = <<>>
    /\ \/ \E k \in 0 .. (PoolCap + MaxExcess) : herds = SplitFarm(k)
       \/ \E ns \in 0 .. (3 * K_sows), nb \in 0 .. K_herd : herds = GiltFarm(ns, nb)
    /\ biosec = 0
    /\ shared_data = <<<<"moves", restructure_moves(rows)>>>>
    /\ trans = [p \in Pens |-> Zero]
    /\ nb_new_farrowing_sows = 0
    /\ nb_of_sampled_I_Jf = 0
    /\ step = 0
    /\ nextId = FirstNewId
    /\ pc = "step"
    /\ loc = NoLoc(herds)
    /\ params = DefaultParams
    /\ ext = NoExt(herds)

NextSplit == FarmerMovement

SpecSplit == InitSplit /\ [][NextSplit]_vars

(* the movements of the farmers: a settled farm and a short schedule *)

\* the movements of the schedule, all dated in the first step
MoveRow == [date : {origin_date}, source : {1, 3, 4, 5}, dest : {1, 2, 4, 16},
            duration : {5040, 10080}]

\* n animals of one age group, the first `infected` of them infectious
Group(first, n, infected, age_group) ==
    [i \in 1 .. n |->
        Pig(first + i, age_group, IF i <= infected THEN "I" ELSE "S", "Female")]

\* a farm with every animal in the pen of its age group: pen 1 holds 2
\* animals and pens 3, 4 and 5 are empty or hold 3, 1 and 4 animals; one
\* animal of each pen is infectious
MoveFarm(full) ==
    [p \in Pens |->
        IF p \notin full THEN <<>>
        ELSE IF p = 1 THEN Group(100, 2, 1, "G")
        ELSE IF p = 3 THEN Group(300, 3, 1, "Jn")
        ELSE IF p = 4 THEN Group(400, 1, 1, "Jf")
        ELSE Group(500, 4, 1, "Jf")]

InitMove ==
    /\ rows \in SeqsUpTo(MoveRow, MaxEdges)
    /\ \E full \in SUBSET {3, 4, 5} : herds = MoveFarm(full \cup {1})
    /\ biosec \in {0, 1}
    /\ InitCommon

NextMove == RunPreprocessor \/ FarmerMovement \/ SampleIFromFatteners \/ EndStep

SpecMove == InitMove /\ [][NextMove]_vars

(* the reallocation over several steps: a small farm with sows and     *)
(* piglets, or a farm whose nursery holds one grower more than the     *)
(* fattening pool takes                                                *)

NextAge(age_group) ==
    CASE age_group = "A" -> "G"
      [] age_group = "G" -> "F"
      [] age_group = "F" -> "A"
      [] age_group = "Jnb" -> "Jn"
      [] age_group = "Jn" -> "Jf"
      [] OTHER -> age_group

\* the end of a step in which the state machine of one sow or piglet moved
\* it to its next age group (the state machines are not part of the add-on;
\* any animal of pens 0 .. 3 may advance between two calls of
\* farmer_movement)
Grow ==
    /\ pc = "moved"
    /\ step < MaxStep
    /\ \E p \in 0 .. 3 : \E i \in DOMAIN herds[p] :
          /\ NextAge(herds[p][i].age_group) # herds[p][i].age_group
          /\ herds' = [herds EXCEPT ![p][i].age_group = NextAge(@)]
    /\ step' = step + 1
    /\ pc' = "step"
    /\ UNCHANGED <<rows, shared_data, trans, nb_new_farrowing_sows,
                   nb_of_sampled_I_Jf, biosec, nextId, loc, params, ext>>

\* a small farm whose farrowing pen holds nb newborns
SmallFarm(nb) ==
    [p \in Pens |->
        CASE p = 0 -> <<Pig(1, "A", "S", "Female"), Pig(2, "G", "I", "Female")>>
          [] p = 1 -> <<Pig(3, "F", "I", "Female")>>
          [] p = 2 -> [i \in 1 .. nb |-> Pig(10 + i, "Jnb", "S", "Male")]
                      \o <<Pig(4, "Jn", "S", "Female")>>
          [] p = 3 -> <<Pig(5, "Jf", "I", "Male"), Pig(6, "Jf", "E", "Female")>>
          [] p = FirstFat -> <<Pig(7, "Jf", "S", "Male")>>
          [] OTHER -> <<>>]

\* a farm with two farrowing sows in the gestating pen and nb newborns in
\* the farrowing pen
LitterFarm(nb) ==
    [p \in Pens |->
        CASE p = 1 -> <<Pig(1, "F", "I", "Female"), Pig(2, "F", "S", "Female")>>
          [] p = 2 -> [i \in 1 .. nb |-> Pig(10 + i, "Jnb", "S", "Male")]
          [] OTHER -> <<>>]

InitRealloc ==
    /\ rows = <<>>
    /\ \/ \E nb \in 0 .. K_herd : herds = SmallFarm(nb)
       \/ \E nb \in 0 .. K_herd : herds = LitterFarm(nb)
       \/ herds = SplitFarm(PoolCap + 1)
    /\ biosec = 0
    /\ shared_data = <<<<"moves", restructure_moves(rows)>>>>
    /\ trans = [p \in Pens |-> Zero]
    /\ nb_new_farrowing_sows = 0
    /\ nb_of_sampled_I_Jf = 0
    /\ step = 0
    /\ nextId = FirstNewId
    /\ pc = "step"
    /\ loc = NoLoc(herds)
    /\ params = DefaultParams
    /\ ext = NoExt(herds)

NextRealloc == FarmerMovement \/ Grow \/ EndStep

SpecRealloc == InitRealloc /\ [][NextRealloc]_vars

(* the external pathway: a farm with three susceptible pigs, open or     *)
(* closed to the outside                                                  *)

ExtFarm ==
    [p \in Pens |->
        CASE p = 0 -> <<Pig(1, "A", "S", "Female"), Pig(2, "A", "S", "Female")>>
          [] p = FirstFat -> <<Pig(3, "Jf", "I", "Male")>>
          [] p = LastFat -> <<Pig(4, "Jf", "S", "Male")>>
          [] OTHER -> <<>>]

\* the parameter sets: every proba_* in {0, 1/2, 1} or {1/2, 1}; the
\* biosecurity success either spread over [0, 1] or always 1
ExtParams ==
    {[proba_encounter |-> e, proba_trans |-> t, proba_ext_I |-> x,
      pes |-> b[1], ml |-> b[2], opt |-> b[3]] :
        e \in {Zero, <<1, 2>>, One}, t \in {<<1, 2>>, One}, x \in {<<1, 2>>, One},
        b \in {<<Zero, <<1, 2>>, One>>, <<One, One, One>>}}

InitExternal ==
    /\ rows = <<>>
    /\ herds = ExtFarm
    /\ biosec = 0
    /\ shared_data = <<<<"moves", restructure_moves(rows)>>>>
    /\ trans = [p \in Pens |-> Zero]
    /\ nb_new_farrowing_sows = 0
    /\ nb_of_sampled_I_Jf = 0
    /\ step = 0
    /\ nextId = FirstNewId
    /\ pc = "step"
    /\ loc = NoLoc(herds)
    /\ params \in ExtParams
    /\ ext = NoExt(herds)

NextExternal == FarmerMovement \/ ExternalPathway \/ EndStep

SpecExternal == InitExternal /\ [][NextExternal]_vars

(* the adjacency of the fattening pens: pens 4 .. 7 empty or holding a  *)
(* susceptible or an infectious fattener, pens 8 .. 15 holding one        *)
(* susceptible fattener each                                              *)

LineFarm(cfg) ==
    [p \in Pens |->
        IF p \in DOMAIN cfg
        THEN (IF cfg[p] = "empty" THEN <<>>
              ELSE <<Pig(p, "Jf", cfg[p], "Male")>>)
        ELSE IF p \in FatPens THEN <<Pig(p, "Jf", "S", "Male")>>
        ELSE <<>>]

InitAdjacency ==
    /\ rows = <<>>
    /\ \E cfg \in [FirstFat .. (FirstFat + 3) -> {"empty", "S", "I"}] :
          herds = LineFarm(cfg)
    /\ biosec = 0
    /\ shared_data = <<<<"moves", restructure_moves(rows)>>>>
    /\ trans = [p \in Pens |-> Zero]
    /\ nb_new_farrowing_sows = 0
    /\ nb_of_sampled_I_Jf = 0
    /\ step = 0
    /\ nextId = FirstNewId
    /\ pc = "step"
    /\ loc = NoLoc(herds)
    /\ params = DefaultParams
    /\ ext = NoExt(herds)

NextAdjacency ==
    FarmerMovement \/ SampleIFromFatteners \/ SampleIFromFattenersLine \/ EndStep

SpecAdjacency == InitAdjacency /\ [][NextAdjacency]_vars

-----------------------------------------------------------------------------
(* C6: restructure_moves returns exactly the bucketed input *)

\* the records of step k and source s, dated at or after the origin
InBucket(row, k, s) ==
    /\ row.date >= origin_date
    /\ k * step_duration <= row.date - origin_date
    /\ row.date - origin_date < (k + 1) * step_duration
    /\ row.source = s

RECURSIVE BucketFrom(_, _, _, _)
BucketFrom(rs, k, s, i) ==
    IF i > Len(rs) THEN <<>>
    ELSE (IF InBucket(rs[i], k, s) THEN <<<<rs[i].dest, rs[i].duration>>>> ELSE <<>>)
         \o BucketFrom(rs, k, s, i + 1)

Bucket(rs, k, s) == BucketFrom(rs, k, s, 1)

UniqueKeys(d) == \A i, j \in DOMAIN d : d[i][1] = d[j][1] => i = j

\* C6: once the moves are loaded, moves[k][s] is, for every step k and source
\* s, the list in file order (repeats kept) of the (dest, duration) pairs of
\* the records dated at or after the origin that fall in step k and have source
\* s; a step key or a source key exists only where that list is not empty.
C6_BucketedInput ==
    "moves" \in DKeys(shared_data) =>
        /\ UniqueKeys(Moves)
        /\ \A k \in DKeys(Moves) :
              /\ UniqueKeys(DGet(Moves, k))
              /\ DKeys(DGet(Moves, k)) # {}
              /\ \A s \in DKeys(DGet(Moves, k)) :
                    /\ DGet(DGet(Moves, k), s) = Bucket(rows, k, s)
                    /\ Bucket(rows, k, s) # <<>>
        /\ \A k \in 0 .. MaxDate, s \in Pens :
              Bucket(rows, k, s) # <<>> =>
                  k \in DKeys(Moves) /\ s \in DKeys(DGet(Moves, k))

\* a file with a record before the origin and two different records of the
\* same step and source has been restructured
C6_Witness ==
    /\ "moves" \in DKeys(shared_data)
    /\ \E i \in DOMAIN rows : rows[i].date < origin_date
    /\ \E k \in DKeys(Moves) : \E s \in DKeys(DGet(Moves, k)) :
          LET l == DGet(DGet(Moves, k), s)
          IN  Len(l) = 2 /\ l[1] # l[2]

-----------------------------------------------------------------------------
(* C7, C8: redistribution of the grower pool over the fattening pens *)

Ids(seq) == {seq[i].id : i \in DOMAIN seq}

\* what pen p holds beyond the animals it held before the call
Received(p) == SubSeq(herds[p], Len(loc.before[p]) + 1, Len(herds[p]))

KeepsResidents(p) == SubSeq(herds[p], 1, Len(loc.before[p])) = loc.before[p]

RECURSIVE ReceivedFrom(_)
ReceivedFrom(p) == IF p > LastFat THEN <<>> ELSE Received(p) \o ReceivedFrom(p + 1)

Clamp(x, lo, hi) == IF x < lo THEN lo ELSE IF x > hi THEN hi ELSE x

FilledPens == {p \in FatPens : Received(p) # <<>>}

\* the parts are contiguous slices of the pool, in pool order, given to pens
\* 4, 5, 6, ... and every pool member is in exactly one of them
SlicesInOrder ==
    /\ \A p \in FatPens : KeepsResidents(p)
    /\ ReceivedFrom(FirstFat) = loc.growers
    /\ FilledPens = FirstFat .. (FirstFat + Cardinality(FilledPens) - 1)
    /\ \A p \in Pens \ FatPens : Ids(herds[p]) \cap Ids(loc.growers) = {}

\* C7 as stated: for every pool size P in 0 .. 144 the number of pens that
\* receive a non-empty part is clamp(floor(P / 12), 1, 12)
C7_Original ==
    (pc = "moved" /\ Len(loc.growers) <= PoolCap) =>
        /\ Cardinality(FilledPens) = Clamp(Len(loc.growers) \div PenCap, 1, PenCap)
        /\ SlicesInOrder

\* C7 (amended): for every pool size P in 1 .. 144 the number of pens that
\* receive a non-empty part is clamp(floor(P / 12), 1, 12); for P = 0 no pen
\* receives a non-empty part.  The parts go to pens 4, 5, 6, ... as contiguous
\* slices in pool order and every pool member is in exactly one pen.
C7_Redistribution ==
    (pc = "moved" /\ Len(loc.growers) <= PoolCap) =>
        /\ Cardinality(FilledPens) =
              (IF Len(loc.growers) = 0 THEN 0
               ELSE Clamp(Len(loc.growers) \div PenCap, 1, PenCap))
        /\ SlicesInOrder

\* a pool of 30 growers went to two pens, 15 each
C7_Witness ==
    /\ pc = "moved"
    /\ Len(loc.growers) = 30
    /\ FilledPens = {4, 5}
    /\ Len(Received(4)) = 15

\* C8: when the pool holds P > 144 growers after the testing, exactly P - 144
\* distinct growers are removed and the other 144 go, in pool order, 12 to
\* each of pens 4 .. 15.
C8_ExcessRemoved ==
    (pc = "moved" /\ Len(loc.tested) > PoolCap) =>
        LET removed == Ids(loc.tested) \ Ids(loc.growers)
        IN  /\ Cardinality(removed) = Len(loc.tested) - PoolCap
            /\ Cardinality(Ids(loc.tested)) = Len(loc.tested)
            /\ loc.growers = SelectSeq(loc.tested, LAMBDA pig : pig.id \notin removed)
            /\ Len(loc.growers) = PoolCap
            /\ \A p \in Pens : Ids(herds[p]) \cap removed = {}
            /\ \A p \in FatPens :
                  /\ KeepsResidents(p)
                  /\ Received(p) = SubSeq(loc.growers, PenCap * (p - FirstFat) + 1,
                                          PenCap * (p - FirstFat) + PenCap)

\* a pool of 145 growers lost one that is neither the first nor the last
C8_Witness ==
    /\ pc = "moved"
    /\ Len(loc.tested) = PoolCap + 1
    /\ Len(loc.excess_growers) = 1
    /\ loc.excess_growers[1].id \notin {loc.tested[1].id, loc.tested[PoolCap + 1].id}
    /\ Len(Received(LastFat)) = PenCap

-----------------------------------------------------------------------------
(* C1 - C5: the transmission the movements of the farmers add *)

\* the movements the last farmer_movement call went through
Visited == {loc.log[i] : i \in DOMAIN loc.log}

\* what movement e added to the statevar of pen p
Added(e, p) == RSub(e.after[p], e.before[p])

\* trans_I_from_source of movement e
Contribution(e) == TransFromSource(herds, biosec, e.source, e.dest, e.dur)

\* C1: a movement between two pens whose destination is pen 4 adds its
\* contribution once to pen 4 and once to each of pens 5 to 15.
C1_FanOut ==
    pc = "moved" =>
        \A e \in Visited :
            (e.source # e.dest /\ e.dest = FirstFat) =>
                /\ Added(e, FirstFat) = Contribution(e)
                /\ \A p \in (FirstFat + 1) .. LastFat : Added(e, p) = Contribution(e)

\* C2: with the biosecurity flag disabled, after a step whose only movement is
\* (s, d, duration) with s # d, s not a fattening pen, a populated source and
\* d not a dressing room, the statevar of d is
\* (duration / 10080) * between_herd_trans * total_I(s) / total_herd(s).
C2_SingleEdge ==
    (pc = "moved" /\ biosec = 0 /\ Len(loc.log) = 1) =>
        LET e == loc.log[1]
        IN  (/\ e.source # e.dest
             /\ e.source \notin FatPens
             /\ total_herd(herds[e.source]) > 0
             /\ e.dest \notin {Dressing1, Dressing2}) =>
                trans[e.dest] =
                    Rat(e.dur * between_herd_trans[1] * total_I(herds[e.source]),
                        WeekMinutes * between_herd_trans[2] * total_herd(herds[e.source]))

\* the risky-move patterns
RiskyPattern(source, dest) ==
    \/ source \in 4 .. 15 /\ dest \in 1 .. 3
    \/ source = 1 /\ dest = 2
    \/ source = 3 /\ dest \in 1 .. 2

\* C3: with the biosecurity flag set, a movement that matches a risky-move
\* pattern adds exactly 0 to the statevar of every pen.
C3_RiskyAddsZero ==
    (pc = "moved" /\ biosec = 1) =>
        \A e \in Visited :
            RiskyPattern(e.source, e.dest) => \A p \in Pens : Added(e, p) = Zero

\* under the flag, a risky movement that lasted a week left pen 4 while the
\* fattening pens held infectious animals
C3_Witness ==
    /\ pc = "moved"
    /\ biosec = 1
    /\ \E e \in Visited :
          /\ RiskyPattern(e.source, e.dest)
          /\ e.source = FirstFat
          /\ total_I(herds[FirstFat]) > 0
          /\ e.dur = WeekMinutes

\* C4: a movement whose source is its destination changes no statevar.
C4_SelfLoop ==
    pc = "moved" =>
        \A e \in Visited : e.source = e.dest => e.after = e.before

\* the movement 4 -> 4 was visited while the fattening pens held infectious
\* animals
C4_Witness ==
    /\ pc = "moved"
    /\ biosec = 0
    /\ \E e \in Visited : e.source = FirstFat /\ e.dest = FirstFat
    /\ total_I(herds[FirstFat]) > 0

\* C5: right after farmer_movement in a step that is no key of the schedule,
\* the statevar of every pen 0 .. nb_herds - 1 is 0.
C5_NoCarryOver ==
    (pc = "moved" /\ step \notin DKeys(Moves)) =>
        \A p \in 0 .. (nb_herds - 1) : trans[p] = Zero

\* farmer_movement ran in a step without movements and found statevars that
\* the movements and the adjacency of the step before had left above 0
C5_Witness ==
    /\ pc = "moved"
    /\ step \notin DKeys(Moves)
    /\ \E p \in Pens \ FatPens : loc.entry[p] # Zero
    /\ \E p \in FatPens : loc.entry[p] # Zero

-----------------------------------------------------------------------------
(* C9, C10: the animals of the farm across farmer_movement *)

\* C9: the farrowing pen never holds more than K_herd newborns.
C9_NewbornCap == total_Jnb(herds[2]) <= K_herd

AllIds(h) == UNION {Ids(h[p]) : p \in Pens}

\* the growers the random testing removed and the sampled excess growers
RemovedIds == (Ids(loc.pool) \ Ids(loc.tested)) \cup Ids(loc.excess_growers)

\* C10: right after farmer_movement no animal is in two pens, every animal
\* that was in a pen before the call is in a pen unless the testing or the
\* excess sample removed it, and the only animals added are the newborns, in
\* pen 2, and the gilt clones, in pen 0.
C10_Membership ==
    pc = "moved" =>
        /\ \A p \in Pens : Cardinality(Ids(herds[p])) = Len(herds[p])
        /\ \A p, q \in Pens : p # q => Ids(herds[p]) \cap Ids(herds[q]) = {}
        /\ AllIds(loc.before) \ RemovedIds \subseteq AllIds(herds)
        /\ AllIds(herds) \ AllIds(loc.before)
              = Ids(loc.newborn) \cup Ids(loc.new_gilts)
        /\ Ids(loc.newborn) \subseteq Ids(herds[2])
        /\ Ids(loc.new_gilts) \subseteq Ids(herds[0])

\* a call moved a gestating sow, added a litter and lost a tested grower
C10_Witness ==
    /\ pc = "moved"
    /\ Ids(loc.before[0]) \cap Ids(herds[1]) # {}
    /\ Len(loc.newborn) > 0
    /\ Ids(loc.pool) \ Ids(loc.tested) # {}

-----------------------------------------------------------------------------
(* C11, C12: the external pathway *)

ExtDone == pc \in {"external", "halted"}

\* the pigs the last external_pathway call went through
ExtVisited == {ext.log[i] : i \in DOMAIN ext.log}

\* C11: when the biosecurity success is always 1 (pessimistic = most likely =
\* optimistic = 1), R_contact is 0 for every pig external_pathway visits and
\* the call applies the transition to no pig, whatever proba_encounter,
\* proba_trans and proba_ext_I are.
C11_PerfectBiosecurity ==
    (ExtDone /\ params.pes = One /\ params.ml = One /\ params.opt = One) =>
        /\ \A e \in ExtVisited : e.R = Zero /\ ~e.applied /\ ~e.raised
        /\ herds = ext.before

\* a closed farm whose proba_* are all 1: the three susceptible pigs were
\* visited, one of them with the draw u = 0
C11_Witness ==
    /\ ExtDone
    /\ params.pes = One /\ params.opt = One
    /\ params.proba_encounter = One /\ params.proba_trans = One
    /\ params.proba_ext_I = One
    /\ Len(ext.log) = 3
    /\ \E e \in ExtVisited : e.u = Zero

\* C12: when apply_prototype raises for a pig the run halts at once: that
\* pig is the last one visited, no pig is visited twice, every pig not
\* visited keeps its state, and no process or step runs afterwards.
C12_FailFast ==
    /\ ExtDone =>
          /\ \A i \in DOMAIN ext.log : ext.log[i].raised => i = Len(ext.log)
          /\ \A i, j \in DOMAIN ext.log : ext.log[i].id = ext.log[j].id => i = j
          /\ (pc = "halted") <=> (\E e \in ExtVisited : e.raised)
          /\ \A p \in Pens : \A i \in DOMAIN herds[p] :
                herds[p][i] # ext.before[p][i] =>
                    \E e \in ExtVisited : e.id = herds[p][i].id /\ e.applied
    /\ pc = "halted" => ~ENABLED NextExternal

\* the transition was applied to the first pig of pen 0 and raised for the
\* second: the run halted with the susceptible pig of pen 15 not visited
C12_Witness ==
    /\ pc = "halted"
    /\ Len(ext.log) = 2
    /\ ext.log[1].applied
    /\ ext.log[2].raised
    /\ herds[LastFat][1].health = "S"

-----------------------------------------------------------------------------
(* C13, C14, C16: the adjacency of the fattening pens *)

\* C13: the movement computation and both variants of the adjacency
\* computation complete without a division by zero, whatever pens are empty.
C13_NoDivisionError == pc # "error"

\* the statevars farmer_movement left behind
TransAfterMovement ==
    IF Len(loc.log) = 0 THEN [p \in Pens |-> Zero] ELSE loc.log[Len(loc.log)].after

\* the same-line neighbours of fattening pen i
SameLineNeighbours(i) == {i - 2, i + 2} \cap FatPens

\* the farm with every animal of pen q in health state v
SetHealth(h, q, v) ==
    [h EXCEPT ![q] = [k \in DOMAIN h[q] |-> [h[q][k] EXCEPT !.health = v]]]

\* what the line-adjacency computation adds to pen i on farm h
LineAdded(h, i) == LineLoop([p \in Pens |-> Zero], h, FirstFat, Zero).trans[i]

\* C14: in the line-adjacency variant the amount added to fattening pen i
\* depends only on its same-line neighbours: with other infection counts in
\* a pen that is no such neighbour, the amount added to pen i is the same.
C14_NeighboursOnly ==
    pc = "sampled_line" =>
        \A i \in FatPens : \A q \in FatPens \ SameLineNeighbours(i) :
            \A v \in {"S", "I"} :
                LineAdded(SetHealth(herds, q, v), i) = RSub(trans[i], TransAfterMovement[i])

\* the infectious animals and all the animals of the fattening pens but i
OthersI(i) ==
    Cardinality(UNION {{<<p, k>> : k \in {j \in DOMAIN herds[p] : herds[p][j].health = "I"}} :
                          p \in FatPens \ {i}})
OthersHerd(i) ==
    Cardinality(UNION {{<<p, k>> : k \in DOMAIN herds[p]} : p \in FatPens \ {i}})

\* C16: after the full-pairwise sample_I_from_fatteners the statevar of each
\* fattening pen i is neighboring_herd_trans * (infectious animals of the
\* other fattening pens) / (animals of the other fattening pens), or 0 when
\* these pens are empty, whatever the movements had accumulated in it; the
\* statevars of the other pens are unchanged.
C16_Overwrite ==
    pc = "sampled" =>
        /\ \A i \in FatPens :
              trans[i] = IF OthersHerd(i) = 0 THEN Zero
                         ELSE Rat(neighboring_herd_trans[1] * OthersI(i),
                                  neighboring_herd_trans[2] * OthersHerd(i))
        /\ \A p \in Pens \ FatPens : trans[p] = TransAfterMovement[p]

\* the movements had accumulated a value in pen 4 that the adjacency
\* computation replaced by another value above 0
C16_Witness ==
    /\ pc = "sampled"
    /\ TransAfterMovement[FirstFat] # Zero
    /\ trans[FirstFat] # Zero
    /\ trans[FirstFat] # TransAfterMovement[FirstFat]

-----------------------------------------------------------------------------
(* C15: the infection fraction of a movement *)

\* the movements that contribute: a duration above 0 that the biosecurity
\* measure does not set to 0, a populated source, no dressing room as
\* destination
Contributing(e) ==
    /\ e.source # e.dest
    /\ e.dur > 0
    /\ ~(biosec = 1 /\ RiskyPattern(e.source, e.dest))
    /\ total_herd(herds[e.source]) > 0
    /\ e.dest \notin {16, 17}

\* C15: a contributing movement whose source is a fattening pen 4 .. 15 uses
\* the infectious animals of pens 4 .. 15 over the animals of pens 4 .. 15
\* (over 1 when there are none); a movement from another pen uses total_I /
\* total_herd of its source.  (Stated for the destinations other than pen 4,
\* whose statevar receives the contribution once.)
C15_PooledFraction ==
    pc = "moved" =>
        \A e \in Visited :
            (Contributing(e) /\ e.dest # FirstFat) =>
                LET I == IF e.source \in FatPens THEN OthersI(0)
                         ELSE total_I(herds[e.source])
                    N == IF e.source \in FatPens
                         THEN (IF OthersHerd(0) = 0 THEN 1 ELSE OthersHerd(0))
                         ELSE total_herd(herds[e.source])
                IN  Added(e, e.dest) =
                        Rat(e.dur * between_herd_trans[1] * I,
                            WeekMinutes * between_herd_trans[2] * N)

-----------------------------------------------------------------------------
(* C17: the cap test of the litter loop *)

\* C17: within one farmer_movement call the cap test has the same outcome
\* for every farrowing sow moved in the call: every one of them gets a litter
\* draw when pen 2 held fewer than K_herd newborns at the start of the loop,
\* none of them otherwise.
C17_SameOutcome ==
    pc = "moved" =>
        /\ Len(loc.litters) = Len(loc.farrowing_sows)
        /\ \A i \in DOMAIN loc.litters :
              /\ loc.litters[i].sow = loc.farrowing_sows[i].id
              /\ loc.litters[i].drawn <=> (total_Jnb(loc.before[2]) < K_herd)

\* two sows farrowed in one call; the litter of the first alone brought the
\* newborns of pen 2 to K_herd or above and the second still got a litter
C17_Witness ==
    /\ pc = "moved"
    /\ Len(loc.litters) = 2
    /\ total_Jnb(loc.before[2]) + Len(loc.litters[1].litter) >= K_herd
    /\ loc.litters[2].drawn
    /\ Len(loc.litters[2].litter) > 0

-----------------------------------------------------------------------------
(* C18: the gilts bred from the excess growers *)

\* the females among the sampled excess growers, in sample order
ExcessFemales == SelectSeq(loc.excess_growers, LAMBDA pig : pig.sex = "Female")

\* the gilt clones: one per female of the sample, added at the end of pen 0
ClonesOfFemales ==
    /\ Len(loc.new_gilts) = Len(ExcessFemales)
    /\ \A i \in DOMAIN loc.new_gilts :
          /\ loc.new_gilts[i].sex = "Female"
          /\ loc.new_gilts[i].id \notin AllIds(loc.before)
    /\ Len(loc.new_gilts) <= Len(herds[0])
    /\ SubSeq(herds[0], Len(herds[0]) - Len(loc.new_gilts) + 1, Len(herds[0]))
           = loc.new_gilts

\* the sampled growers, cloned or not, are in no pen and not in the pool
OriginalsRemoved ==
    /\ Ids(loc.excess_growers) \cap Ids(loc.growers) = {}
    /\ Ids(loc.excess_growers) \cap AllIds(herds) = {}

\* all animals of pens 0, 1 and 2 when the excess is dealt with (the clones
\* enter pen 0 afterwards)
PopulationOfSowPens ==
    Len(herds[0]) - Len(loc.new_gilts) + Len(herds[1]) + Len(herds[2])

\* total_sows: the non-gestating animals of pen 0, the gestating ones of pen
\* 1 and the farrowing ones of pen 2 when the excess is dealt with
SowsAndGilts ==
    total_A(herds[0]) - Len(loc.new_gilts) + total_G(herds[1]) + total_F(herds[2])

\* C18 as stated: with a positive excess, clones are added exactly when all
\* the animals of pens 0, 1 and 2 together are fewer than 3 * K_sows
C18_Original ==
    (pc = "moved" /\ Len(loc.tested) > PoolCap) =>
        /\ IF PopulationOfSowPens < 3 * K_sows
           THEN ClonesOfFemales
           ELSE loc.new_gilts = <<>>
        /\ OriginalsRemoved

\* C18 (amended): with a positive excess, gilt clones are added to pen 0
\* exactly when total_A of pen 0 + total_G of pen 1 + total_F of pen 2 is
\* below 3 * K_sows (the newborns and the other animals of these pens are not
\* counted); then one clone is added per female among the sampled excess
\* growers, otherwise none.  The sampled growers, cloned or not, leave the
\* pool.
C18_GiltClones ==
    (pc = "moved" /\ Len(loc.tested) > PoolCap) =>
        /\ IF SowsAndGilts < 3 * K_sows
           THEN ClonesOfFemales
           ELSE loc.new_gilts = <<>>
        /\ OriginalsRemoved

\* a female grower was sampled and cloned on a farm whose pens 0, 1 and 2
\* hold sows below and animals at or above 3 * K_sows
C18_Witness ==
    /\ pc = "moved"
    /\ Len(loc.tested) > PoolCap
    /\ SowsAndGilts < 3 * K_sows
    /\ PopulationOfSowPens >= 3 * K_sows
    /\ Len(loc.new_gilts) = 1
    /\ loc.new_gilts[1] \in Range(herds[0])

-----------------------------------------------------------------------------
(* C19: the head capacity of a fattening pen *)

\* C19: no fattening pen ever holds more than 12 animals, residents and newly
\* assigned growers together.
C19_PenCapacity == \A p \in FatPens : Len(herds[p]) <= PenCap

====
